---- MODULE Spec2Model ----
(***************************************************************************)
(* Model of 06-Auto-Guage/PIO/src/main.cpp: an ESP-NOW receive callback    *)
(* (onDataRecv, run by the Wi-Fi task) hands DashPacket frames to the      *)
(* Arduino main loop (loop, run by the loop task), which renders them on   *)
(* LVGL widgets, integrates a trip distance and refreshes a link dot.      *)
(*                                                                         *)
(* Two processes are interleaved at the granularity of their accesses to   *)
(* the shared globals latestData, hasNewData and lastPacketMillis, which   *)
(* the source protects by nothing: the callback copies the frame piece by  *)
(* piece (memcpy is not atomic), then sets the flag, then stamps the time; *)
(* the loop tests the flag, clears it, and reads latestData three times    *)
(* while rendering.                                                        *)
(*                                                                         *)
(* Number representations:                                                 *)
(*   - millis() values are naturals at or below MaxClock, far beneath the  *)
(*     2^32 rollover of unsigned long; an unsigned difference a - b with   *)
(*     a < b is a rolled-over (huge) value;                                *)
(*   - a float voltage is the integer number of 2^-20 V it holds (the      *)
(*     float32 spacing on [8,16) V), so the float32 steps of the battery   *)
(*     computation are reproduced exactly;                                 *)
(*   - totalDistanceKm is held exactly, as an integer number of 1/3600000  *)
(*     km (speed units times milliseconds): float32 rounding of the        *)
(*     accumulator is not modelled.                                        *)
(***************************************************************************)
EXTENDS Integers, Sequences, FiniteSets, TLC

(* ------------------------------ bounds --------------------------------- *)

\* millis() when setup() returns (it holds a delay(100) and the driver init).
StartupMillis == 500

\* Number of times the clock is seen to advance.
MaxAdvance == 2

\* Uptime horizon of the model, in milliseconds.
MaxClock == 3602500

\* Number of onDataRecv invocations that pass the length test.
MaxRecv == 2

(* ------------------------- program constants --------------------------- *)

\* sizeof(DashPacket): uint16 + padding, four floats, uint8 + padding.
FrameSize == 24

\* float32 units per volt used for the batt field (2^20).
VoltUnit == 1048576

\* Milliseconds per hour, the divisor 3600000.0f of the trip integrator.
MsPerHour == 3600000

\* Link threshold in milliseconds.
LinkTimeoutMs == 1000

\* rpm divisor and speed ceiling.
RpmPerSpeed == 32

SpeedMax == 250

\* Largest value of the uint16_t rpm field.
RpmMax == 65535

\* lv_color_hex(0x00FF00) and lv_color_hex(0xFF0000).
Green == "00FF00"

Red == "FF0000"

\* Value of a widget that updateUIFromData has not written yet (what ui_init()
\* put there is not part of the source); label texts start as "".
Unset == -1

\* A float batt holding a NaN (any 32-bit pattern can arrive in a frame): a
\* value kept apart from every number.
NaN == -2147483647

\* INT_MAX; INT_MIN is -IntMax - 1.
IntMax == 2147483647

(* ------------------------------ frames --------------------------------- *)

\* A memcpy one field short.
CopyOrderShort == <<{"rpm"}, {"batt"}, {"motor", "dk", "gp"}>>

\* The fields of DashPacket in declaration (address) order, in the pieces
\* memcpy is seen to copy: rpm, batt, then the four fields nothing reads.
CopyOrder == <<{"rpm"}, {"batt"}, {"motor", "dk", "gp", "funk"}>>

\* The zero-initialised static latestData.
ZeroPacket ==
    [rpm |-> 0, batt |-> 0, motor |-> 0, dk |-> 0, gp |-> 0, funk |-> 0]

DashPacket(rpm, batt, motor, dk, gp, funk) ==
    [rpm |-> rpm, batt |-> batt, motor |-> motor, dk |-> dk, gp |-> gp,
     funk |-> funk]

\* Frames the sender delivers: 4000 rpm at 12.0 V and 3200 rpm at 14.0 V.
Frames ==
    { DashPacket(4000, 12 * VoltUnit, 40, 35, 10, 1),
      DashPacket(3200, 14 * VoltUnit, 45, 38, 80, 0) }

\* Values of the len argument: one short, exact, one long.
Lens == {FrameSize - 1, FrameSize, FrameSize + 1}

\* Voltages the transform is checked on: one inside every percent step from
\* 0 to 99, the ends of the clamp and their neighbours, voltages far outside
\* it on both sides, 10.4f and 10 + 1090519 * 2^-20 (whose products by 100
\* fall between two float32 values), and a NaN.
BattSamples ==
    { 10 * VoltUnit + (p * 4 * VoltUnit) \div 100 + 1 : p \in 0 .. 99 }
        \cup { 0 - 5 * VoltUnit, 0, 9 * VoltUnit, 10 * VoltUnit - 1,
                10 * VoltUnit, 10905190, 10 * VoltUnit + 1090519,
                12 * VoltUnit, 14 * VoltUnit - 1, 14 * VoltUnit,
                14 * VoltUnit + 1, 15 * VoltUnit, 20 * VoltUnit, NaN }

\* Frames the transform is checked on, one at a time: every uint16_t rpm, and
\* every sample voltage.
TransformFrames ==
    { DashPacket(r, 12 * VoltUnit, 40, 35, 10, 1) : r \in 0 .. RpmMax }
        \cup { DashPacket(4000, b, 40, 35, 10, 1) : b \in BattSamples }

\* Amounts by which the clock is seen to advance between two steps.
ClockSteps == {1, 999, MsPerHour}

(* --------------------------- pure helpers ------------------------------ *)

\* Round n / d to the nearest integer, ties to even (printf's %.1f on a value
\* that is exactly n / d tenths), for n >= 0 and d > 0.
RoundDiv(n, d) ==
    LET q == n \div d
        r == n % d
    IN  IF 2 * r < d THEN q
        ELSE IF 2 * r > d THEN q + 1
        ELSE IF q % 2 = 0 THEN q ELSE q + 1

\* printf("%.1f") of t tenths, t >= 0.
Fixed1(t) == ToString(t \div 10) \o "." \o ToString(t % 10)

\* Arduino's constrain(amt, low, high).
Constrain(amt, low, high) ==
    IF amt < low THEN low ELSE IF amt > high THEN high ELSE amt

\* Arduino's map(x, in_min, in_max, out_min, out_max), long arithmetic
\* (operands here are never negative, so \div truncates as C does).
Map(x, in_min, in_max, out_min, out_max) ==
    ((x - in_min) * (out_max - out_min)) \div (in_max - in_min) + out_min

\* A non-negative value n (in units of 2^-20) below 128 rounded to float32:
\* the spacing is 2^-20 below 16, then doubles with each binade.
Float32Round(n) ==
    LET ulp == IF n < 16 * VoltUnit THEN 1
               ELSE IF n < 32 * VoltUnit THEN 2
               ELSE IF n < 64 * VoltUnit THEN 4
               ELSE 8
    IN  RoundDiv(n, ulp) * ulp

(* ---------------------- the code's computations ------------------------ *)

\* The length test accepting every buffer that is long enough.
LenAtLeast(len) == len >= FrameSize

\* onDataRecv: the test len == sizeof(DashPacket).
LenOk(len) == len = FrameSize

\* The link test with the threshold itself counted as connected.
LinkOkInclusive(now, last) ==
    IF now >= last THEN now - last <= LinkTimeoutMs ELSE FALSE

\* update_link_indicator: (millis() - lastPacketMillis) < 1000 on unsigned
\* long. When last is ahead of now the difference rolls over to a value near
\* 2^32, which is not below the threshold.
LinkOk(now, last) ==
    IF now >= last THEN now - last < LinkTimeoutMs ELSE FALSE

\* The speed scale without its upper clamp.
SpeedValueUnclamped(rpm) ==
    LET s == rpm \div RpmPerSpeed
    IN  IF s < 0 THEN 0 ELSE s

\* updateUIFromData 1): int speedValue = latestData.rpm / 32, then the two ifs.
SpeedValue(rpm) ==
    LET s == rpm \div RpmPerSpeed
        t == IF s < 0 THEN 0 ELSE s
    IN  IF t > SpeedMax THEN SpeedMax ELSE t

\* The roller ladder with each boundary speed left in the lower mode.
RollerModeInclusive(speed) ==
    IF speed <= 60 THEN 0
    ELSE IF speed <= 80 THEN 1
    ELSE IF speed <= 140 THEN 2
    ELSE 3

\* updateUIFromData 2): the roller ladder.
RollerMode(speed) ==
    IF speed < 60 THEN 0
    ELSE IF speed < 80 THEN 1
    ELSE IF speed < 140 THEN 2
    ELSE 3

\* The integrator with the elapsed hours computed in integer arithmetic.
TripAddWholeHours(total, speed, now, last) ==
    total + speed * (((now - last) \div MsPerHour) * MsPerHour)

\* The integrator assigning the increment instead of adding it.
TripAddAssign(total, speed, now, last) == speed * (now - last)

\* updateUIFromData 3): the new totalDistanceKm, in units of 1/MsPerHour km:
\* hours = (now - lastTripMillis) / 3600000.0f; totalDistanceKm += speed * hours.
TripAdd(total, speed, now, last) == total + speed * (now - last)

\* snprintf(tripText, 20, "%.1f ", totalDistanceKm).
TripText(total) == Fixed1(RoundDiv(total, MsPerHour \div 10)) \o " "

\* The battery percent with the product rounded to the nearest integer.
BattPercentRounded(batt) ==
    LET b == Constrain(batt, 10 * VoltUnit, 14 * VoltUnit)
        k == b - 10 * VoltUnit
        p == (Float32Round(25 * k) + VoltUnit \div 2) \div VoltUnit
    IN  Constrain(p, 0, 100)

\* updateUIFromData 4): constrain to [10, 14] V, (int)(((batt - 10) / 4) * 100)
\* in float32, constrain to [0, 100]. The subtraction and the division by 4 are
\* exact in float32; the product by 100 (25 * k units of 2^-20) is rounded.
BattPercent(batt) ==
    LET b == Constrain(batt, 10 * VoltUnit, 14 * VoltUnit)
        k == b - 10 * VoltUnit
        p == Float32Round(25 * k) \div VoltUnit
    IN  Constrain(p, 0, 100)

\* snprintf(batteryText, 10, "%d%%", battPercent).
BatteryText(percent) == ToString(percent) \o "%"

\* The conversion (int)x of the float product. For a number it is the
\* truncation BattPercent computes; for a NaN the conversion is undefined and
\* gives whatever the build produces, here 0 or either end of int.
IntOfPercent(batt) ==
    IF batt = NaN THEN {0 - IntMax - 1, 0, IntMax} ELSE {BattPercent(batt)}

\* The battery percent without its last constrain.
BattPercentOutcomesUnclamped(batt) == IntOfPercent(batt)

\* updateUIFromData 4) on any float: constrain(NaN, 10, 14) is NaN (both
\* comparisons of the macro are false), so the NaN reaches the conversion; the
\* last constrain(battPercent, 0, 100) is applied to its result.
BattPercentOutcomes(batt) ==
    { Constrain(p, 0, 100) : p \in IntOfPercent(batt) }

\* The voltage label printed with "%.0fV".
VoltTextNoDecimal(batt) ==
    IF batt = NaN THEN "nanV"
    ELSE IF batt < 0 THEN "-" \o ToString(RoundDiv(0 - batt, VoltUnit)) \o "V"
         ELSE ToString(RoundDiv(batt, VoltUnit)) \o "V"

\* updateUIFromData 5): snprintf(voltText, 10, "%.1fV", latestData.batt).
VoltText(batt) ==
    IF batt = NaN THEN "nanV"
    ELSE IF batt < 0
         THEN "-" \o Fixed1(RoundDiv(0 - 10 * batt, VoltUnit)) \o "V"
         ELSE Fixed1(RoundDiv(10 * batt, VoltUnit)) \o "V"

\* The range slider scaled onto [0, 100] instead of [0, 70].
RangeLevelFullScale(percent) == Map(percent, 0, 100, 0, 100)

\* updateUIFromData 6): map(battPercent, 0, 100, 0, 70).
RangeLevel(percent) == Map(percent, 0, 100, 0, 70)

(* ------------------------------- state --------------------------------- *)

VARIABLES
    \* globals of main.cpp
    latestData,          \* static DashPacket latestData
    hasNewData,          \* static volatile bool hasNewData
    lastTripMillis,      \* static unsigned long lastTripMillis
    totalDistanceKm,     \* static float totalDistanceKm, in 1/MsPerHour km
    lastPacketMillis,    \* static unsigned long lastPacketMillis
    \* the display sink: the value last set on each widget
    ui_slider_speed, ui_lbl_speed, ui_roller_mode, ui_lbl_trip_value,
    ui_bar_battery, ui_lbl_battery_value, ui_lbl_range, ui_slider_range,
    ui_link_dot,
    \* the clock
    clock,               \* what millis() returns now
    nAdvance,            \* times the clock advanced
    \* the loop task
    pc,                  \* position in loop() / updateUIFromData()
    speedValue,          \* local int speedValue
    battPercent,         \* local int battPercent
    linkNow,             \* the millis() read by update_link_indicator
    \* the Wi-Fi task running onDataRecv
    cbPc,                \* position in onDataRecv: idle, copy, flag, stamp
    cbIdx,               \* next piece memcpy copies
    cbData,              \* incomingData of the last call that passed the test
    cbLen,               \* len of the last call
    \* bookkeeping of the run
    nValid,              \* calls of onDataRecv that passed the length test
    nRender,             \* calls of updateUIFromData
    written,             \* the frames onDataRecv has been given to write
    cbConsumed,          \* the loop cleared the flag the running call had set
    tickQuiet,           \* no frame was arriving at, or arrived since, the
                         \* latest test of hasNewData
    tickRendered         \* this call of loop() found hasNewData true

shared == <<latestData, hasNewData, lastPacketMillis>>

trip == <<lastTripMillis, totalDistanceKm>>

telemetry ==
    <<ui_slider_speed, ui_lbl_speed, ui_roller_mode, ui_lbl_trip_value,
      ui_bar_battery, ui_lbl_battery_value, ui_lbl_range, ui_slider_range>>

time == <<clock, nAdvance>>

loopLocal == <<pc, speedValue, battPercent, linkNow>>

cbLocal == <<cbPc, cbIdx, cbData, cbLen>>

book == <<nValid, nRender, written, cbConsumed, tickQuiet, tickRendered>>

vars ==
    <<shared, trip, telemetry, ui_link_dot, time, loopLocal, cbLocal, book>>

\* The state when setup() has returned: globals as initialised, the dot red
\* (create_link_indicator), lastTripMillis = millis() (setup's last line).
Init ==
    /\ latestData = ZeroPacket
    /\ hasNewData = FALSE
    /\ clock = StartupMillis
    /\ nAdvance = 0
    /\ lastTripMillis = StartupMillis
    /\ totalDistanceKm = 0
    /\ lastPacketMillis = 0
    /\ ui_slider_speed = Unset
    /\ ui_lbl_speed = ""
    /\ ui_roller_mode = Unset
    /\ ui_lbl_trip_value = ""
    /\ ui_bar_battery = Unset
    /\ ui_lbl_battery_value = ""
    /\ ui_lbl_range = ""
    /\ ui_slider_range = Unset
    /\ ui_link_dot = Red
    /\ pc = "timer"
    /\ speedValue = 0
    /\ battPercent = 0
    /\ linkNow = 0
    /\ cbPc = "idle"
    /\ cbIdx = 1
    /\ cbData = ZeroPacket
    /\ cbLen = 0
    /\ nValid = 0
    /\ nRender = 0
    /\ written = {}
    /\ cbConsumed = FALSE
    /\ tickQuiet = TRUE
    /\ tickRendered = FALSE

(* ------------------------------ the clock ------------------------------ *)

\* Time passes (between any two steps, delay(5) included).
Advance ==
    \E d \in ClockSteps :
        /\ nAdvance < MaxAdvance
        /\ clock + d <= MaxClock
        /\ clock' = clock + d
        /\ nAdvance' = nAdvance + 1
        /\ UNCHANGED <<shared, trip, telemetry, ui_link_dot, loopLocal,
                       cbLocal, book>>

(* ------------------------ onDataRecv (Wi-Fi task) ----------------------- *)

\* The transport calls onDataRecv(info, incomingData, len): the length test.
\* A call that fails it returns at once.
OnDataRecv ==
    \E len \in Lens, data \in Frames :
        /\ cbPc = "idle"
        /\ cbLen' = len
        /\ IF LenOk(len)
           THEN /\ nValid < MaxRecv
                /\ cbPc' = "copy"
                /\ cbIdx' = 1
                /\ cbData' = data
                /\ nValid' = nValid + 1
                /\ written' = written \cup {data}
                /\ tickQuiet' = FALSE
           ELSE UNCHANGED <<cbPc, cbIdx, cbData, nValid, written, tickQuiet>>
        /\ UNCHANGED <<shared, trip, telemetry, ui_link_dot, time, loopLocal,
                       nRender, cbConsumed, tickRendered>>

\* A decoder that keeps the frame the loop has not read yet.
RecvCopyKeepUnread ==
    /\ cbPc = "copy"
    /\ latestData' =
           [f \in DOMAIN latestData |->
               IF f \in CopyOrder[cbIdx] /\ ~hasNewData
               THEN cbData[f] ELSE latestData[f]]
    /\ IF cbIdx = Len(CopyOrder)
       THEN cbPc' = "flag" /\ cbIdx' = 1
       ELSE cbPc' = cbPc /\ cbIdx' = cbIdx + 1
    /\ UNCHANGED <<hasNewData, lastPacketMillis, trip, telemetry, ui_link_dot,
                   time, loopLocal, cbData, cbLen, book>>

\* memcpy(&latestData, incomingData, sizeof(DashPacket)), piece by piece.
RecvCopy ==
    /\ cbPc = "copy"
    /\ latestData' =
           [f \in DOMAIN latestData |->
               IF f \in CopyOrder[cbIdx] THEN cbData[f] ELSE latestData[f]]
    /\ IF cbIdx = Len(CopyOrder)
       THEN cbPc' = "flag" /\ cbIdx' = 1
       ELSE cbPc' = cbPc /\ cbIdx' = cbIdx + 1
    /\ UNCHANGED <<hasNewData, lastPacketMillis, trip, telemetry, ui_link_dot,
                   time, loopLocal, cbData, cbLen, book>>

\* hasNewData = true.
RecvFlag ==
    /\ cbPc = "flag"
    /\ hasNewData' = TRUE
    /\ cbPc' = "stamp"
    /\ UNCHANGED <<latestData, lastPacketMillis, trip, telemetry, ui_link_dot,
                   time, loopLocal, cbIdx, cbData, cbLen, book>>

\* The stamp written to the integrator's timestamp instead.
RecvStampTripMillis ==
    /\ cbPc = "stamp"
    /\ lastTripMillis' = clock
    /\ cbPc' = "idle"
    /\ cbConsumed' = FALSE
    /\ UNCHANGED <<shared, totalDistanceKm, telemetry, ui_link_dot, time,
                   loopLocal, cbIdx, cbData, cbLen, nValid, nRender, written,
                   tickQuiet, tickRendered>>

\* lastPacketMillis = millis(), and the return.
RecvStamp ==
    /\ cbPc = "stamp"
    /\ lastPacketMillis' = clock
    /\ cbPc' = "idle"
    /\ cbConsumed' = FALSE
    /\ UNCHANGED <<latestData, hasNewData, trip, telemetry, ui_link_dot, time,
                   loopLocal, cbIdx, cbData, cbLen, nValid, nRender, written,
                   tickQuiet, tickRendered>>

Recv == OnDataRecv \/ RecvCopy \/ RecvFlag \/ RecvStamp

(* --------------------------- loop (loop task) --------------------------- *)

\* loop() is entered (the locals of the call before are gone):
\* lv_timer_handler(); delay(5);
LoopTimer ==
    /\ pc = "timer"
    /\ pc' = "poll"
    /\ linkNow' = 0
    /\ tickRendered' = FALSE
    /\ UNCHANGED <<shared, trip, telemetry, ui_link_dot, time, speedValue,
                   battPercent, cbLocal, nValid, nRender, written, cbConsumed,
                   tickQuiet>>

\* The loop rendering in every iteration, whatever the flag.
LoopPollAlways ==
    /\ pc = "poll"
    /\ pc' = "clear"
    /\ tickQuiet' = (cbPc = "idle")
    /\ tickRendered' = TRUE
    /\ UNCHANGED <<shared, trip, telemetry, ui_link_dot, time, speedValue,
                   battPercent, linkNow, cbLocal, nValid, nRender, written,
                   cbConsumed>>

\* if (hasNewData)
LoopPoll ==
    /\ pc = "poll"
    /\ pc' = IF hasNewData THEN "clear" ELSE "linkNow"
    /\ tickQuiet' = (cbPc = "idle")
    /\ tickRendered' = hasNewData
    /\ UNCHANGED <<shared, trip, telemetry, ui_link_dot, time, speedValue,
                   battPercent, linkNow, cbLocal, nValid, nRender, written,
                   cbConsumed>>

\* The call of updateUIFromData() without hasNewData = false before it.
LoopClearKeepsFlag ==
    /\ pc = "clear"
    /\ nRender' = nRender + 1
    /\ cbConsumed' = (cbPc = "stamp")
    /\ pc' = "speed"
    /\ UNCHANGED <<shared, trip, telemetry, ui_link_dot, time, speedValue,
                   battPercent, linkNow, cbLocal, nValid, written, tickQuiet,
                   tickRendered>>

\* hasNewData = false; and the call of updateUIFromData().
LoopClear ==
    /\ pc = "clear"
    /\ hasNewData' = FALSE
    /\ nRender' = nRender + 1
    /\ cbConsumed' = (cbPc = "stamp")
    /\ pc' = "speed"
    /\ UNCHANGED <<latestData, lastPacketMillis, trip, telemetry, ui_link_dot,
                   time, speedValue, battPercent, linkNow, cbLocal, nValid,
                   written, tickQuiet, tickRendered>>

\* updateUIFromData 1) and 2): speed slider, speed label, roller.
RenderSpeed ==
    /\ pc = "speed"
    /\ speedValue' = SpeedValue(latestData.rpm)
    /\ ui_slider_speed' = speedValue'
    /\ ui_lbl_speed' = ToString(speedValue')
    /\ ui_roller_mode' = RollerMode(speedValue')
    /\ pc' = "trip"
    /\ UNCHANGED <<shared, trip, ui_lbl_trip_value, ui_bar_battery,
                   ui_lbl_battery_value, ui_lbl_range, ui_slider_range,
                   ui_link_dot, time, battPercent, linkNow, cbLocal, book>>

\* updateUIFromData 3): the trip integrator and the trip label.
RenderTrip ==
    /\ pc = "trip"
    /\ IF lastTripMillis = 0
       THEN totalDistanceKm' = totalDistanceKm
       ELSE totalDistanceKm' =
                TripAdd(totalDistanceKm, speedValue, clock, lastTripMillis)
    /\ lastTripMillis' = clock
    /\ ui_lbl_trip_value' = TripText(totalDistanceKm')
    /\ pc' = "battery"
    /\ UNCHANGED <<shared, ui_slider_speed, ui_lbl_speed, ui_roller_mode,
                   ui_bar_battery, ui_lbl_battery_value, ui_lbl_range,
                   ui_slider_range, ui_link_dot, time, speedValue, battPercent,
                   linkNow, cbLocal, book>>

\* updateUIFromData 4): battery bar and battery label.
RenderBattery ==
    /\ pc = "battery"
    /\ battPercent' \in BattPercentOutcomes(latestData.batt)
    /\ ui_bar_battery' = battPercent'
    /\ ui_lbl_battery_value' = BatteryText(battPercent')
    /\ pc' = "volt"
    /\ UNCHANGED <<shared, trip, ui_slider_speed, ui_lbl_speed, ui_roller_mode,
                   ui_lbl_trip_value, ui_lbl_range, ui_slider_range,
                   ui_link_dot, time, speedValue, linkNow, cbLocal, book>>

\* updateUIFromData 5): the voltage label, from a second read of latestData.
RenderVolt ==
    /\ pc = "volt"
    /\ ui_lbl_range' = VoltText(latestData.batt)
    /\ pc' = "range"
    /\ UNCHANGED <<shared, trip, ui_slider_speed, ui_lbl_speed, ui_roller_mode,
                   ui_lbl_trip_value, ui_bar_battery, ui_lbl_battery_value,
                   ui_slider_range, ui_link_dot, time, speedValue, battPercent,
                   linkNow, cbLocal, book>>

\* The end of the render with the flag cleared after updateUIFromData() too.
RenderRangeClearsFlag ==
    /\ pc = "range"
    /\ ui_slider_range' = RangeLevel(battPercent)
    /\ speedValue' = 0
    /\ battPercent' = 0
    /\ hasNewData' = FALSE
    /\ pc' = "linkNow"
    /\ UNCHANGED <<latestData, lastPacketMillis, trip, ui_slider_speed,
                   ui_lbl_speed, ui_roller_mode, ui_lbl_trip_value,
                   ui_bar_battery, ui_lbl_battery_value, ui_lbl_range,
                   ui_link_dot, time, linkNow, cbLocal, book>>

\* updateUIFromData 6): the range slider, and the return to loop(), where the
\* locals speedValue and battPercent are gone.
RenderRange ==
    /\ pc = "range"
    /\ ui_slider_range' = RangeLevel(battPercent)
    /\ speedValue' = 0
    /\ battPercent' = 0
    /\ pc' = "linkNow"
    /\ UNCHANGED <<shared, trip, ui_slider_speed, ui_lbl_speed, ui_roller_mode,
                   ui_lbl_trip_value, ui_bar_battery, ui_lbl_battery_value,
                   ui_lbl_range, ui_link_dot, time, linkNow, cbLocal, book>>

\* update_link_indicator: the call of millis() (ui_link_dot is never null
\* once setup() has run).
LinkNow ==
    /\ pc = "linkNow"
    /\ linkNow' = clock
    /\ pc' = "linkSet"
    /\ UNCHANGED <<shared, trip, telemetry, ui_link_dot, time, speedValue,
                   battPercent, cbLocal, book>>

\* update_link_indicator: the read of lastPacketMillis, the test and the
\* colour; loop() returns and is called again.
LinkSet ==
    /\ pc = "linkSet"
    /\ ui_link_dot' = IF LinkOk(linkNow, lastPacketMillis) THEN Green ELSE Red
    /\ pc' = "timer"
    /\ UNCHANGED <<shared, trip, telemetry, time, speedValue, battPercent,
                   linkNow, cbLocal, book>>

UpdateUIFromData ==
    RenderSpeed \/ RenderTrip \/ RenderBattery \/ RenderVolt \/ RenderRange

Loop == LoopTimer \/ LoopPoll \/ LoopClear \/ UpdateUIFromData \/ LinkNow \/ LinkSet

Next == Advance \/ Recv \/ Loop

Spec == Init /\ [][Next]_vars

\* The same program under its scheduling: loop() is called again for ever by
\* the loop task, and a call of onDataRecv that has begun runs to its return
\* (it holds no wait). Nothing makes a frame arrive or the clock be read.
SpecFair ==
    /\ Spec
    /\ WF_vars(Loop)
    /\ WF_vars(RecvCopy \/ RecvFlag \/ RecvStamp)

(* ------------------- the transform, one frame at a time ----------------- *)

\* The state when one frame has been received after setup() and the loop has
\* not tested the flag yet, for every frame of TransformFrames.
InitTransform ==
    /\ latestData \in TransformFrames
    /\ hasNewData = TRUE
    /\ clock = StartupMillis
    /\ nAdvance = 0
    /\ lastTripMillis = StartupMillis
    /\ totalDistanceKm = 0
    /\ lastPacketMillis = StartupMillis
    /\ ui_slider_speed = Unset
    /\ ui_lbl_speed = ""
    /\ ui_roller_mode = Unset
    /\ ui_lbl_trip_value = ""
    /\ ui_bar_battery = Unset
    /\ ui_lbl_battery_value = ""
    /\ ui_lbl_range = ""
    /\ ui_slider_range = Unset
    /\ ui_link_dot = Red
    /\ pc = "timer"
    /\ speedValue = 0
    /\ battPercent = 0
    /\ linkNow = 0
    /\ cbPc = "idle"
    /\ cbIdx = 1
    /\ cbData = latestData
    /\ cbLen = FrameSize
    /\ nValid = 1
    /\ nRender = 0
    /\ written = {latestData}
    /\ cbConsumed = FALSE
    /\ tickQuiet = TRUE
    /\ tickRendered = FALSE

\* The loop alone: no further frame arrives.
SpecTransform == InitTransform /\ [][Loop]_vars

(* ------------------------------- claims -------------------------------- *)

RenderPcs == {"speed", "trip", "battery", "volt", "range"}

\* The telemetry widgets all show the values frame f gives.
Shows(f) ==
    /\ ui_slider_speed = SpeedValue(f.rpm)
    /\ ui_lbl_speed = ToString(SpeedValue(f.rpm))
    /\ ui_roller_mode = RollerMode(SpeedValue(f.rpm))
    /\ ui_bar_battery = BattPercent(f.batt)
    /\ ui_lbl_battery_value = BatteryText(BattPercent(f.batt))
    /\ ui_lbl_range = VoltText(f.batt)
    /\ ui_slider_range = RangeLevel(BattPercent(f.batt))

\* No telemetry widget has been written.
TelemetryUnset ==
    /\ ui_slider_speed = Unset
    /\ ui_lbl_speed = ""
    /\ ui_roller_mode = Unset
    /\ ui_lbl_trip_value = ""
    /\ ui_bar_battery = Unset
    /\ ui_lbl_battery_value = ""
    /\ ui_lbl_range = ""
    /\ ui_slider_range = Unset

\* C1: whenever a render has completed, the speed, mode, battery percent,
\* voltage and range on the display all come from one frame the decoder was
\* given to write, under every interleaving of onDataRecv with the loop.
\* (The code reads latestData at three places of updateUIFromData with no
\* protection, so this fails.)
C1_RenderFromOneFrame ==
    (nRender >= 1 /\ pc \notin RenderPcs) => \E f \in written : Shows(f)

\* C2: every step of a call of onDataRecv whose len is not the frame size
\* leaves latestData, hasNewData and lastPacketMillis unchanged.
C2_BadLengthChangesNothing ==
    [][(cbLen' # FrameSize /\ pc' = pc /\ clock' = clock)
           => UNCHANGED <<latestData, hasNewData, lastPacketMillis>>]_vars

\* A call with a wrong length has returned while the slot held an unread frame.
C2_Witness ==
    /\ cbLen = FrameSize + 1
    /\ cbPc = "idle"
    /\ hasNewData
    /\ latestData \in Frames
    /\ lastPacketMillis > StartupMillis

\* C3 as stated: when a call with the right length returns, latestData is the
\* delivered frame, hasNewData is true and lastPacketMillis is the clock value
\* the call read. (The loop may have tested and cleared the flag between the
\* call's write of it and its return, so this fails.)
C3_OnReturnFlagSet ==
    [][(cbPc = "stamp" /\ cbPc' = "idle")
           => /\ latestData' = cbData
              /\ hasNewData' = TRUE
              /\ lastPacketMillis' = clock]_vars

\* C3 amended: a call with the right length copies the frame; its write of the
\* flag leaves hasNewData true; when it returns latestData is the delivered
\* frame in every field, lastPacketMillis is the clock value it read, and
\* hasNewData is true unless the loop has cleared it since the call set it.
C3_OnReturn ==
    [][/\ (cbPc = "idle" /\ cbLen' = FrameSize /\ nValid' # nValid)
           => (cbPc' = "copy" /\ cbData' \in Frames)
       /\ (cbPc = "flag" /\ cbPc' = "stamp") => hasNewData'
       /\ (cbPc = "stamp" /\ cbPc' = "idle")
           => /\ cbLen = FrameSize
              /\ latestData' = cbData
              /\ lastPacketMillis' = clock
              /\ (hasNewData' \/ cbConsumed)]_vars

\* A call has returned, the flag still set, after the clock had advanced.
C3_Witness ==
    /\ cbPc = "idle"
    /\ nValid >= 1
    /\ latestData = cbData
    /\ hasNewData
    /\ lastPacketMillis = clock
    /\ clock > StartupMillis

\* C4: while no valid frame has arrived the link dot is red and no telemetry
\* widget has been written. (lastPacketMillis starts at 0, so the dot is green
\* while millis() < 1000: this fails.)
C4_NoFrameLinkDown ==
    nValid = 0 => (ui_link_dot = Red /\ TelemetryUnset)

\* C5: the first render after startup adds nothing to totalDistanceKm.
\* (setup() leaves lastTripMillis = millis(), so the first render integrates
\* the time since setup: this fails.)
C5_FirstRenderAddsZero ==
    (nRender = 1 /\ pc \notin {"speed", "trip"}) => totalDistanceKm = 0

\* C6: every loop iteration ends by setting the link dot, from the clock value
\* read in that iteration: green iff that value minus lastPacketMillis (an
\* unsigned difference) is below 1000 ms, red otherwise.
C6_LinkIndicator ==
    [][/\ (pc = "linkNow" /\ pc' # pc) => (pc' = "linkSet" /\ linkNow' = clock)
       /\ (pc' = "timer" /\ pc # "timer")
           => /\ pc = "linkSet"
              /\ ui_link_dot' =
                     IF linkNow >= lastPacketMillis
                            /\ linkNow - lastPacketMillis < 1000
                     THEN Green ELSE Red]_vars

\* An iteration has ended exactly 1000 ms after the last frame: the dot is red.
C6_Witness ==
    /\ pc = "timer"
    /\ cbPc = "idle"
    /\ nValid >= 1
    /\ linkNow - lastPacketMillis = 1000
    /\ ui_link_dot = Red

\* C7: in every render after the first, totalDistanceKm grows by the displayed
\* (clamped) speed times the milliseconds since the render before, that is by
\* speed * elapsed / 3600000 km, whatever the gap, and lastTripMillis becomes
\* the clock value read.
C7_TripIntegrates ==
    [][(pc = "trip" /\ pc' # pc /\ nRender >= 2)
           => /\ totalDistanceKm' =
                     totalDistanceKm + ui_slider_speed * (clock - lastTripMillis)
              /\ lastTripMillis' = clock
              /\ \E f \in written :
                     ui_slider_speed =
                         Constrain(f.rpm \div 32, 0, 250)]_vars

\* Speed 100 in two renders 3600000 ms apart: 100 km.
C7_Witness ==
    /\ nRender = 2
    /\ pc = "battery"
    /\ ui_slider_speed = 100
    /\ clock = StartupMillis + MsPerHour
    /\ totalDistanceKm = 100 * MsPerHour

\* C8: totalDistanceKm never decreases.
C8_DistanceMonotonic ==
    [][totalDistanceKm' >= totalDistanceKm]_vars

\* The distance has grown in each of two renders.
C8_Witness ==
    /\ nRender = 2
    /\ pc = "battery"
    /\ nAdvance = 2
    /\ totalDistanceKm > 125 * MsPerHour

C10_SpeedScale ==
    pc = "trip" =>
        LET r == latestData.rpm
        IN  /\ ui_slider_speed = Constrain(r \div 32, 0, 250)
            /\ (r = 0 => ui_slider_speed = 0)
            /\ (ui_slider_speed = 250 <=> r >= 8000)
            /\ (r > 0 => SpeedValue(r - 1) <= ui_slider_speed)

\* The render of rpm 8000 shows 250.
C10_Witness ==
    /\ pc = "trip"
    /\ latestData.rpm = 8000
    /\ ui_slider_speed = 250
    /\ ui_lbl_speed = "250"

\* C11: once a render has set the speed, the mode on the roller is given by
\* the speed shown, and by nothing else: 0 below 60, 1 from 60 to 79, 2 from 80
\* to 139, 3 from 140 on.
C11_ModeOfSpeed ==
    (nRender >= 1 /\ pc # "speed") =>
        /\ ui_slider_speed < 60 => ui_roller_mode = 0
        /\ (60 <= ui_slider_speed /\ ui_slider_speed < 80) => ui_roller_mode = 1
        /\ (80 <= ui_slider_speed /\ ui_slider_speed < 140)
               => ui_roller_mode = 2
        /\ ui_slider_speed >= 140 => ui_roller_mode = 3

\* The render of a frame whose speed is the boundary 60 selects mode 1.
C11_Witness ==
    /\ pc = "trip"
    /\ latestData.rpm = 60 * RpmPerSpeed
    /\ ui_slider_speed = 60
    /\ ui_roller_mode = 1

\* The exact value of ((clamp(batt, 10, 14) - 10) / 4) * 100, in units of
\* 2^-20 percent.
ExactPercentUnits(batt) ==
    25 * (Constrain(batt, 10 * VoltUnit, 14 * VoltUnit) - 10 * VoltUnit)

\* C12 as stated: the battery percent a render shows for a voltage is the
\* truncation toward zero of the exact value of
\* ((clamp(batt, 10, 14) - 10) / 4) * 100. (The code rounds the product to
\* float32 before it truncates, so for batt = 10 + 1090519 * 2^-20 V, whose
\* exact value is 26 - 2^-20, it shows 26: this fails.)
C12_PercentTruncatesExact ==
    (pc = "volt" /\ latestData.batt # NaN) =>
        ui_bar_battery = ExactPercentUnits(latestData.batt) \div VoltUnit

\* C12 amended: the battery percent shown is the truncation toward zero of
\* the product rounded to the nearest float32 (ties to even): it is the
\* truncation e of the exact value, or e + 1 exactly when the exact value is
\* at most half a float32 spacing below e + 1; it is 0 at 10.0 V, 50 at
\* 12.0 V, 100 at 14.0 V, 0 below 10 V and 100 above 14 V.
C12_PercentTruncatesFloat ==
    (pc = "volt" /\ latestData.batt # NaN) =>
        LET v == latestData.batt
            x == ExactPercentUnits(v)
            e == x \div VoltUnit
            spacing == IF x < 16 * VoltUnit THEN 1
                       ELSE IF x < 32 * VoltUnit THEN 2
                       ELSE IF x < 64 * VoltUnit THEN 4
                       ELSE 8
            up == 2 * ((e + 1) * VoltUnit - x) <= spacing
        IN  /\ ui_bar_battery = IF up THEN e + 1 ELSE e
            /\ v = 10 * VoltUnit => ui_bar_battery = 0
            /\ v = 12 * VoltUnit => ui_bar_battery = 50
            /\ v = 14 * VoltUnit => ui_bar_battery = 100
            /\ v < 10 * VoltUnit => ui_bar_battery = 0
            /\ v > 14 * VoltUnit => ui_bar_battery = 100

\* The render of 10 + 1090519 * 2^-20 V, whose exact value 26 - 2^-20 lies
\* halfway between two float32 values, shows 26 %.
C12_Witness ==
    /\ pc = "volt"
    /\ latestData.batt = 10 * VoltUnit + 1090519
    /\ ui_bar_battery = 26
    /\ ui_lbl_battery_value = "26%"

\* C13: once a render has ended, the range slider holds the battery percent
\* shown times 70 / 100 in integer arithmetic: 0 at 0 %, 70 at 100 %, and not
\* below the level of one percent less.
C13_RangeLinear ==
    (nRender >= 1 /\ pc \notin RenderPcs) =>
        LET p == ui_bar_battery
        IN  /\ ui_slider_range = (p * 70) \div 100
            /\ p = 0 => ui_slider_range = 0
            /\ p = 100 => ui_slider_range = 70
            /\ p > 0 => ((p - 1) * 70) \div 100 <= ui_slider_range

\* A render of 99 % sets the range slider to 69.
C13_Witness ==
    /\ pc = "linkNow"
    /\ ui_bar_battery = 99
    /\ ui_slider_range = 69

\* C14: when the only frame received so far has rpm 4000 and batt 12.0 V and
\* the loop iteration that rendered it has left updateUIFromData, the display
\* shows speed 125, mode 2, battery 50 %, "12.0V" and range 35, and hasNewData
\* is false.
C14_EndToEnd ==
    (/\ nValid = 1
     /\ nRender = 1
     /\ pc \notin RenderPcs
     /\ cbData.rpm = 4000
     /\ cbData.batt = 12 * VoltUnit) =>
        /\ ui_slider_speed = 125
        /\ ui_lbl_speed = "125"
        /\ ui_roller_mode = 2
        /\ ui_bar_battery = 50
        /\ ui_lbl_battery_value = "50%"
        /\ ui_lbl_range = "12.0V"
        /\ ui_slider_range = 35
        /\ ~hasNewData

\* One frame {rpm 4000, batt 12.0} was received, one iteration rendered it
\* and has ended.
C14_Witness ==
    /\ nValid = 1
    /\ nRender = 1
    /\ pc = "timer"
    /\ cbPc = "idle"
    /\ latestData.rpm = 4000
    /\ latestData.batt = 12 * VoltUnit
    /\ ui_lbl_speed = "125"
    /\ ui_lbl_battery_value = "50%"
    /\ ui_lbl_range = "12.0V"
    /\ ui_slider_range = 35
    /\ ui_roller_mode = 2
    /\ ~hasNewData

\* C15: once a valid frame has been delivered, the loop eventually ends a
\* render after which the display shows the latest frame delivered (that frame
\* or a later one) with nothing left pending, however the delivery was
\* interleaved with the loop's test, its clearing of the flag and its reads;
\* so when frames stop arriving the display comes to show the last one.
C15_NoLostUpdate ==
    (nValid >= 1) ~>
        (/\ nRender >= 1
         /\ pc \notin RenderPcs
         /\ cbPc = "idle"
         /\ ~hasNewData
         /\ Shows(cbData))

\* Two different frames were delivered and each caused a render; the display
\* shows the second and nothing is pending.
C15_Witness ==
    /\ nValid = 2
    /\ nRender = 2
    /\ written = Frames
    /\ cbConsumed = FALSE
    /\ pc = "linkNow"
    /\ cbPc = "idle"
    /\ ~hasNewData
    /\ Shows(cbData)

\* C16: a call of loop() that finds hasNewData false goes from the test
\* straight to update_link_indicator, and no step taken from its entry to its
\* return, by the loop or by a callback running meanwhile, changes
\* totalDistanceKm, lastTripMillis or a telemetry widget; the link dot is the
\* only widget it may write.
C16_IdleTickChangesNothing ==
    [][/\ (pc \in {"timer", "poll"}
            \/ (pc \in {"linkNow", "linkSet"} /\ ~tickRendered))
           => UNCHANGED <<trip, telemetry>>
       /\ (pc = "poll" /\ pc' # pc /\ ~hasNewData)
           => (pc' = "linkNow" /\ ~tickRendered')]_vars

\* After a render that integrated some distance, a later call of loop() found
\* no new data and turned the dot red; the telemetry still shows the frame.
C16_Witness ==
    /\ pc = "timer"
    /\ ~tickRendered
    /\ nRender = 1
    /\ cbPc = "idle"
    /\ totalDistanceKm > 0
    /\ lastTripMillis < linkNow
    /\ linkNow - lastPacketMillis >= LinkTimeoutMs
    /\ ui_link_dot = Red
    /\ Shows(cbData)

\* C17: a step that is not a step of loop() (a step of onDataRecv, or the
\* clock advancing) changes neither totalDistanceKm, lastTripMillis nor any
\* widget; a step of loop() changes neither latestData nor lastPacketMillis,
\* and changes hasNewData only from true to false; hasNewData goes from false
\* to true only in the flag write of a call of onDataRecv whose len was the
\* frame size.
C17_SingleWriter ==
    [][/\ pc' = pc => UNCHANGED <<trip, telemetry, ui_link_dot>>
       /\ pc' # pc
           => /\ UNCHANGED <<latestData, lastPacketMillis>>
              /\ hasNewData' # hasNewData => (hasNewData /\ ~hasNewData')
       /\ (~hasNewData /\ hasNewData')
           => /\ pc' = pc
              /\ cbPc = "flag"
              /\ cbPc' = "stamp"
              /\ cbLen = FrameSize]_vars

\* After a render that integrated some distance, a second call of onDataRecv
\* has run to its return: the flag is set again, the trip state is as the
\* render left it.
C17_Witness ==
    /\ nValid = 2
    /\ nRender = 1
    /\ cbPc = "idle"
    /\ pc \notin RenderPcs
    /\ hasNewData
    /\ latestData = cbData
    /\ totalDistanceKm > 0
    /\ lastTripMillis < lastPacketMillis

\* C18: the number of calls of updateUIFromData never exceeds the number of
\* calls of onDataRecv that passed the length test; while there has been none
\* of these, there has been no render and no telemetry widget is written.
C18_RendersAtMostFrames ==
    /\ nRender <= nValid
    /\ nValid = 0 => (nRender = 0 /\ TelemetryUnset)

\* Two frames were received before the loop tested the flag: one render served
\* both, and nothing is pending.
C18_Witness ==
    /\ nValid = 2
    /\ nRender = 1
    /\ pc = "timer"
    /\ cbPc = "idle"
    /\ ~hasNewData
    /\ Shows(cbData)

\* C19: for every uint16_t rpm and every voltage, a NaN included, each value
\* a render has set lies in its range: the speed in 0..250, the mode in 0..3,
\* the battery percent in 0..100 and the range level in 0..70.
C19_DisplayInRange ==
    /\ (nRender >= 1 /\ pc # "speed")
           => /\ ui_slider_speed \in 0 .. 250
              /\ ui_roller_mode \in 0 .. 3
    /\ (nRender >= 1 /\ pc \notin {"speed", "trip", "battery"})
           => ui_bar_battery \in 0 .. 100
    /\ (nRender >= 1 /\ pc \notin RenderPcs)
           => ui_slider_range \in 0 .. 70

\* A frame whose voltage is a NaN has been rendered, the conversion having
\* given INT_MAX: the bar shows 100 and the range slider 70.
C19_Witness ==
    /\ pc = "linkNow"
    /\ latestData.batt = NaN
    /\ ui_lbl_range = "nanV"
    /\ ui_bar_battery = 100
    /\ ui_slider_range = 70

====
